---- MODULE Spec2Model ----
(***************************************************************************)
(* Turn-taking controller of src/app/components/InterviewSession.tsx.      *)
(*                                                                         *)
(* The React component is modelled as a state machine: the useState hooks  *)
(* are variables, every event handler / promise continuation / timer       *)
(* callback is one action.  A text is a sequence of tokens; the token " "  *)
(* is whitespace.  activeMessageIndex is 0-based as in the source, the     *)
(* conversation is a 1-based TLA+ sequence.                                *)
(***************************************************************************)
EXTENDS Integers, Sequences, FiniteSets, TLC

\* ---------------------------------------------------------------- bounds
MaxTurns == 5      \* longest conversation explored
MaxTimers == 2     \* most mock-transcript timers pending at once

\* ---------------------------------------------------------------- inputs
Names == {"Ana", "Bo"}
Positions == {"Backend Engineer"}

\* userInfo prop (InterviewSessionProps); experience/additionalInfo are only
\* forwarded to openaiService and never read by the component.
UserInfos == [name : Names, position : Positions]

\* texts the recognition service may deliver to its callback
Transcripts == { <<>>, <<" ">>, <<" ", " ">>, <<"yes">>, <<" ", "yes", " ">> }

\* answers of openaiService.generateInitialQuestion / generateNextQuestion
Questions == { <<"q1">>, <<"q2">> }

VARIABLES
    userInfo,              \* props.userInfo
    recognitionSupported,  \* speechService.isRecognitionSupported()
    synthesisSupported,    \* speechService.isSynthesisSupported()
    phase,                 \* "constructed" | "mounted" | "unmounted"
    isListening,
    transcript,
    botResponse,
    conversation,
    isConnected,
    isBotSpeaking,
    isLoading,
    activeMessageIndex,
    initPending,           \* generateInitialQuestion() promise not settled
    inflight,              \* generateNextQuestion() promises not settled
    recCb,                 \* <<callback>> held by speechService, or <<>>
    timers,                \* pending setTimeout(…, 3000) closures, FIFO
    speaking,              \* speak() calls whose onDone has not fired
    ended,                 \* onEndInterview() has been invoked
    trace                  \* the last handler run and the calls it made

hooks == << isListening, transcript, botResponse, conversation, isConnected,
            isBotSpeaking, isLoading, activeMessageIndex >>

env == << userInfo, recognitionSupported, synthesisSupported >>

vars == << userInfo, recognitionSupported, synthesisSupported, phase,
           isListening, transcript, botResponse, conversation, isConnected,
           isBotSpeaking, isLoading, activeMessageIndex, initPending,
           inflight, recCb, timers, speaking, ended, trace >>

\* ---------------------------------------------------------------- helpers
IsSpace(c) == c = " "

RECURSIVE TrimStart(_)
TrimStart(s) ==
    IF s # <<>> /\ IsSpace(Head(s)) THEN TrimStart(Tail(s)) ELSE s

RECURSIVE TrimEnd(_)
TrimEnd(s) ==
    IF s # <<>> /\ IsSpace(s[Len(s)])
    THEN TrimEnd(SubSeq(s, 1, Len(s) - 1))
    ELSE s

\* String.prototype.trim
Trim(s) == TrimEnd(TrimStart(s))

IsBlank_noTrim(text) == text = <<>>

\* `!text.trim()`
IsBlank(text) == Trim(text) = <<>>

mockTranscript ==
    << "I have 5 years of experience working with React and Next.js.", " ",
       "I've built several enterprise applications and led teams of frontend developers." >>

FallbackQuestion_noProfile(u) ==
    << "Hello ", "candidate", ", thanks for joining this interview for the ",
       "open", " position. Could you tell me about your background and experience?" >>

\* the template literal of the catch branch
FallbackQuestion(u) ==
    << "Hello ", u.name, ", thanks for joining this interview for the ",
       u.position, " position. Could you tell me about your background and experience?" >>

Turn(s, t) == [speaker |-> s, text |-> t]

Mounted == phase = "mounted"

Handler(op, arg, calls) == [op |-> op, arg |-> arg, calls |-> calls]

\* useEffect(…, [conversation.length]): the value of activeMessageIndex after
\* a render in which the conversation went from `old` to `new`.
ActiveIndexAfter_stale(old, new, idx) == idx

ActiveIndexAfter_offByOne(old, new, idx) ==
    IF Len(new) # Len(old) /\ Len(new) > 0 THEN Len(new) ELSE idx

ActiveIndexAfter(old, new, idx) ==
    IF Len(new) # Len(old) /\ Len(new) > 0 THEN Len(new) - 1 ELSE idx

\* `if (isBotSpeaking || isLoading) return;`
ToggleBlocked_loadingOnly == isLoading

ToggleBlocked_speakingOnly == isBotSpeaking

ToggleBlocked == isBotSpeaking \/ isLoading

\* `setIsLoading(true)` before the opening question is requested
LoadingAtMount_missing == FALSE

LoadingAtMount == TRUE

\* the calls of handleEndInterview, in program order
EndInterviewCalls_callbackFirst ==
    << "onEndInterview", "stopListening" >>
    \o (IF synthesisSupported THEN << "cancel" >> ELSE << >>)

EndInterviewCalls ==
    << "stopListening" >>
    \o (IF synthesisSupported THEN << "cancel" >> ELSE << >>)
    \o << "onEndInterview" >>

\* ---------------------------------------------------------------- Init
Init ==
    /\ userInfo \in UserInfos
    /\ recognitionSupported \in BOOLEAN
    /\ synthesisSupported \in BOOLEAN
    /\ phase = "constructed"
    /\ isListening = FALSE
    /\ transcript = <<>>
    /\ botResponse = <<>>
    /\ conversation = <<>>
    /\ isConnected = FALSE
    /\ isBotSpeaking = FALSE
    /\ isLoading = FALSE
    /\ activeMessageIndex = 0
    /\ initPending = FALSE
    /\ inflight = 0
    /\ recCb = <<>>
    /\ timers = <<>>
    /\ speaking = 0
    /\ ended = FALSE
    /\ trace = Handler("construct", <<>>, <<>>)

\* ---------------------------------------------------------------- actions

\* The mount effect up to the first await of initializeInterview.
MountEffect ==
    /\ phase = "constructed"
    /\ phase' = "mounted"
    /\ isLoading' = LoadingAtMount
    /\ initPending' = TRUE
    /\ trace' = Handler("mount", <<>>,
                        << "resetConversation", "initializeWithUserInfo",
                           "generateInitialQuestion" >>)
    /\ UNCHANGED << env, isListening, transcript, botResponse, conversation,
                    isConnected, isBotSpeaking, activeMessageIndex, inflight,
                    recCb, timers, speaking, ended >>

\* generateInitialQuestion() resolved with q: rest of the try block, finally,
\* setIsConnected(true).  State setters of an unmounted component do nothing;
\* the call to speechService.speak is made regardless.
InitResolve(q) ==
    /\ initPending
    /\ initPending' = FALSE
    /\ IF Mounted
       THEN /\ botResponse' = q
            /\ conversation' = << Turn("bot", q) >>
            /\ isBotSpeaking' = IF synthesisSupported THEN TRUE ELSE isBotSpeaking
            /\ isLoading' = FALSE
            /\ isConnected' = TRUE
            /\ activeMessageIndex' =
                   ActiveIndexAfter(conversation, conversation', activeMessageIndex)
            /\ UNCHANGED << isListening, transcript >>
       ELSE UNCHANGED hooks
    /\ speaking' = IF synthesisSupported THEN speaking + 1 ELSE speaking
    /\ trace' = Handler("initResolve", q,
                        IF synthesisSupported THEN << "speak" >> ELSE << >>)
    /\ UNCHANGED << env, phase, inflight, recCb, timers, ended >>

\* generateInitialQuestion() rejected: catch block, finally, setIsConnected.
InitReject ==
    /\ initPending
    /\ initPending' = FALSE
    /\ IF Mounted
       THEN /\ botResponse' = FallbackQuestion(userInfo)
            /\ conversation' = << Turn("bot", FallbackQuestion(userInfo)) >>
            /\ isLoading' = FALSE
            /\ isConnected' = TRUE
            /\ activeMessageIndex' =
                   ActiveIndexAfter(conversation, conversation', activeMessageIndex)
            /\ UNCHANGED << isListening, transcript, isBotSpeaking >>
       ELSE UNCHANGED hooks
    /\ trace' = Handler("initReject", <<>>, << >>)
    /\ UNCHANGED << env, phase, inflight, recCb, timers, speaking, ended >>

SpeakDone_noReset ==
    /\ speaking > 0
    /\ speaking' = speaking - 1
    /\ UNCHANGED hooks
    /\ trace' = Handler("speakDone", <<>>, << >>)
    /\ UNCHANGED << env, phase, initPending, inflight, recCb, timers, ended >>

\* onDone callback of speechService.speak
SpeakDone ==
    /\ speaking > 0
    /\ speaking' = speaking - 1
    /\ IF Mounted
       THEN /\ isBotSpeaking' = FALSE
            /\ UNCHANGED << isListening, transcript, botResponse, conversation,
                            isConnected, isLoading, activeMessageIndex >>
       ELSE UNCHANGED hooks
    /\ trace' = Handler("speakDone", <<>>, << >>)
    /\ UNCHANGED << env, phase, initPending, inflight, recCb, timers, ended >>

\* handleTranscript(text) up to its await, run in the closure of the render
\* that created it: `cb.isListening` is the isListening that render saw.
\* Shared by the recognition callback and the mock timer.
HandleTranscript(op, text, cb) ==
    IF IsBlank(text)
    THEN /\ trace' = Handler(op, text, << >>)
         /\ UNCHANGED << hooks, inflight >>
    ELSE /\ Len(conversation) + inflight + 2 <= MaxTurns
         /\ IF Mounted
            THEN /\ transcript' = text
                 /\ conversation' = Append(conversation, Turn("user", text))
                 /\ isListening' = IF cb.isListening THEN FALSE ELSE isListening
                 /\ isLoading' = TRUE
                 /\ activeMessageIndex' =
                        ActiveIndexAfter(conversation, conversation', activeMessageIndex)
                 /\ UNCHANGED << botResponse, isConnected, isBotSpeaking >>
            ELSE UNCHANGED hooks
         /\ inflight' = inflight + 1
         /\ trace' = Handler(op, text,
                             (IF cb.isListening THEN << "stopListening" >> ELSE << >>)
                             \o << "generateNextQuestion" >>)

\* speechService invokes the callback given to startListening (at most once
\* per start).
RecognitionResult(text) ==
    /\ recCb # <<>>
    /\ HandleTranscript("recognitionResult", text, Head(recCb))
    /\ recCb' = <<>>
    /\ UNCHANGED << env, phase, initPending, timers, speaking, ended >>

\* the 3000 ms timer of the mock-listening branch fires
MockTimerFires ==
    /\ timers # <<>>
    /\ HandleTranscript("mockTimer", mockTranscript, Head(timers))
    /\ timers' = Tail(timers)
    /\ UNCHANGED << env, phase, initPending, recCb, speaking, ended >>

NextResolve_alwaysSpeaks(q) ==
    /\ inflight > 0
    /\ inflight' = inflight - 1
    /\ IF Mounted
       THEN /\ botResponse' = q
            /\ conversation' = Append(conversation, Turn("bot", q))
            /\ isBotSpeaking' = TRUE
            /\ isLoading' = FALSE
            /\ activeMessageIndex' =
                   ActiveIndexAfter(conversation, conversation', activeMessageIndex)
            /\ UNCHANGED << isListening, transcript, isConnected >>
       ELSE UNCHANGED hooks
    /\ speaking' = speaking + 1
    /\ trace' = Handler("nextResolve", q, << "speak" >>)
    /\ UNCHANGED << env, phase, initPending, recCb, timers, ended >>

\* generateNextQuestion() resolved with q: rest of the try block and finally
NextResolve(q) ==
    /\ inflight > 0
    /\ inflight' = inflight - 1
    /\ IF Mounted
       THEN /\ botResponse' = q
            /\ conversation' = Append(conversation, Turn("bot", q))
            /\ isBotSpeaking' = IF synthesisSupported THEN TRUE ELSE isBotSpeaking
            /\ isLoading' = FALSE
            /\ activeMessageIndex' =
                   ActiveIndexAfter(conversation, conversation', activeMessageIndex)
            /\ UNCHANGED << isListening, transcript, isConnected >>
       ELSE UNCHANGED hooks
    /\ speaking' = IF synthesisSupported THEN speaking + 1 ELSE speaking
    /\ trace' = Handler("nextResolve", q,
                        IF synthesisSupported THEN << "speak" >> ELSE << >>)
    /\ UNCHANGED << env, phase, initPending, recCb, timers, ended >>

NextReject_dropsUserTurn ==
    /\ inflight > 0
    /\ inflight' = inflight - 1
    /\ IF Mounted
       THEN /\ isLoading' = FALSE
            /\ conversation' = SubSeq(conversation, 1, Len(conversation) - 1)
            /\ activeMessageIndex' =
                   ActiveIndexAfter(conversation, conversation', activeMessageIndex)
            /\ UNCHANGED << isListening, transcript, botResponse, isConnected,
                            isBotSpeaking >>
       ELSE UNCHANGED hooks
    /\ trace' = Handler("nextReject", <<>>, << >>)
    /\ UNCHANGED << env, phase, initPending, recCb, timers, speaking, ended >>

NextReject_noFinally ==
    /\ inflight > 0
    /\ inflight' = inflight - 1
    /\ UNCHANGED hooks
    /\ trace' = Handler("nextReject", <<>>, << >>)
    /\ UNCHANGED << env, phase, initPending, recCb, timers, speaking, ended >>

\* generateNextQuestion() rejected: catch block and finally
NextReject ==
    /\ inflight > 0
    /\ inflight' = inflight - 1
    /\ IF Mounted
       THEN /\ isLoading' = FALSE
            /\ UNCHANGED << isListening, transcript, botResponse, conversation,
                            isConnected, isBotSpeaking, activeMessageIndex >>
       ELSE UNCHANGED hooks
    /\ trace' = Handler("nextReject", <<>>, << >>)
    /\ UNCHANGED << env, phase, initPending, recCb, timers, speaking, ended >>

\* toggleListening, called from the mic button of the current render.
\* `started` is the result of speechService.startListening.
ToggleListening(started) ==
    /\ Mounted
    /\ IF ToggleBlocked
       THEN /\ trace' = Handler("toggleListening", <<>>, << >>)
            /\ UNCHANGED << hooks, recCb, timers >>
       ELSE IF ~isListening
       THEN IF recognitionSupported
            THEN /\ isListening' = started
                 /\ recCb' = IF started THEN << [isListening |-> isListening] >> ELSE recCb
                 /\ trace' = Handler("toggleListening", <<>>, << "startListening" >>)
                 /\ UNCHANGED << transcript, botResponse, conversation, isConnected,
                                 isBotSpeaking, isLoading, activeMessageIndex, timers >>
            ELSE /\ Len(timers) < MaxTimers
                 /\ started
                 /\ isListening' = TRUE
                 /\ timers' = Append(timers, [isListening |-> isListening])
                 /\ trace' = Handler("toggleListening", <<>>, << "setTimeout" >>)
                 /\ UNCHANGED << transcript, botResponse, conversation, isConnected,
                                 isBotSpeaking, isLoading, activeMessageIndex, recCb >>
       ELSE /\ isListening' = FALSE
            /\ trace' = Handler("toggleListening", <<>>,
                                IF recognitionSupported THEN << "stopListening" >>
                                                        ELSE << >>)
            /\ UNCHANGED << transcript, botResponse, conversation, isConnected,
                            isBotSpeaking, isLoading, activeMessageIndex, recCb,
                            timers >>
    /\ UNCHANGED << env, phase, initPending, inflight, speaking, ended >>

\* onClick of a history pill; pills exist only when conversation.length > 1
SelectMessage(index) ==
    /\ Mounted
    /\ Len(conversation) > 1
    /\ index \in 0 .. Len(conversation) - 1
    /\ activeMessageIndex' = index
    /\ trace' = Handler("selectMessage", index, << >>)
    /\ UNCHANGED << env, phase, isListening, transcript, botResponse,
                    conversation, isConnected, isBotSpeaking, isLoading,
                    initPending, inflight, recCb, timers, speaking, ended >>

\* handleEndInterview, called from the End Interview button
HandleEndInterview ==
    /\ Mounted
    /\ ended' = TRUE
    /\ trace' = Handler("handleEndInterview", <<>>, EndInterviewCalls)
    /\ UNCHANGED << env, phase, hooks, initPending, inflight, recCb, timers,
                    speaking >>

\* cleanup function of the mount effect
Unmount ==
    /\ Mounted
    /\ phase' = "unmounted"
    /\ trace' = Handler("unmount", <<>>,
                        << "stopListening" >>
                        \o (IF synthesisSupported THEN << "cancel" >> ELSE << >>))
    /\ UNCHANGED << env, hooks, initPending, inflight, recCb, timers, speaking,
                    ended >>

Next ==
    \/ MountEffect
    \/ \E q \in Questions : InitResolve(q)
    \/ InitReject
    \/ SpeakDone
    \/ \E started \in BOOLEAN : ToggleListening(started)
    \/ \E text \in Transcripts : RecognitionResult(text)
    \/ MockTimerFires
    \/ \E q \in Questions : NextResolve(q)
    \/ NextReject
    \/ \E index \in 0 .. MaxTurns - 1 : SelectMessage(index)
    \/ HandleEndInterview
    \/ Unmount

Spec == Init /\ [][Next]_vars

TypeOK ==
    /\ phase \in {"constructed", "mounted", "unmounted"}
    /\ isListening \in BOOLEAN /\ isLoading \in BOOLEAN /\ isBotSpeaking \in BOOLEAN
    /\ Len(conversation) <= MaxTurns
    /\ inflight \in 0 .. MaxTurns
    /\ Len(timers) <= MaxTimers

\* ------------------------------------------------- successful cycles only
\* Behaviours made of successful transcription->dialogue cycles: listening is
\* started only when the transcript of the previous start has been delivered,
\* every delivered transcript is non-empty, every dialogue request resolves,
\* the session is not ended.
CycleToggle(started) ==
    /\ ToggleBlocked \/ isListening \/ (recCb = <<>> /\ timers = <<>>)
    /\ ToggleListening(started)

CycleTranscript(text) ==
    /\ Trim(text) # <<>>
    /\ RecognitionResult(text)

CycleNext ==
    \/ MountEffect
    \/ \E q \in Questions : InitResolve(q)
    \/ InitReject
    \/ SpeakDone
    \/ \E started \in BOOLEAN : CycleToggle(started)
    \/ \E text \in Transcripts : CycleTranscript(text)
    \/ MockTimerFires
    \/ \E q \in Questions : NextResolve(q)
    \/ \E index \in 0 .. MaxTurns - 1 : SelectMessage(index)

SpecCycles == Init /\ [][CycleNext]_vars

\* ---------------------------------------------------------------- claims

\* C1: in a sequence of successful cycles every cycle appends exactly two
\* turns -- the delivered transcript appends one user turn, the resolved
\* dialogue request one bot turn, nothing else changes the conversation once
\* the opening turn is placed -- and the speakers alternate, the first turn
\* being a bot turn (so an idle session has 1 + 2 * cycles turns).
C1_CyclesGrowByTwoAndAlternate ==
    [][ /\ trace'.op \in {"recognitionResult", "mockTimer"}
            => /\ Len(conversation') = Len(conversation) + 1
               /\ conversation'[Len(conversation')].speaker = "user"
               /\ inflight' = 1
        /\ trace'.op = "nextResolve"
            => /\ Len(conversation') = Len(conversation) + 1
               /\ conversation'[Len(conversation')].speaker = "bot"
               /\ inflight' = 0
        /\ trace'.op \notin {"recognitionResult", "mockTimer", "nextResolve",
                             "initResolve", "initReject"}
            => conversation' = conversation
        /\ \A i \in 1 .. Len(conversation') :
               conversation'[i].speaker = IF i % 2 = 1 THEN "bot" ELSE "user"
        /\ (conversation' # <<>> /\ inflight' = 0) => Len(conversation') % 2 = 1
      ]_vars

C1_Witness ==
    /\ Len(conversation) = 5
    /\ inflight = 0
    /\ trace.op = "nextResolve"

\* C2: toggleListening invoked while isLoading or isBotSpeaking changes none
\* of isListening, isLoading, isBotSpeaking, the conversation, the registered
\* recognition callback and the pending mock timers, and makes no service
\* call.
C2_ToggleBlockedIsNoOp ==
    [][ (trace'.op = "toggleListening" /\ (isLoading \/ isBotSpeaking))
            => /\ UNCHANGED << isListening, isLoading, isBotSpeaking,
                               conversation, recCb, timers >>
               /\ trace'.calls = << >>
      ]_vars

C2_Witness ==
    /\ trace.op = "toggleListening"
    /\ isBotSpeaking
    /\ Len(conversation) >= 3

\* C3: a transcript that is empty or consists of whitespace only, delivered
\* by the recognition callback in any state, leaves the conversation, the
\* number of dialogue requests in flight and the three status flags
\* unchanged and issues no dialogue request.
C3_BlankTranscriptIsNoOp ==
    [][ ( /\ trace'.op \in {"recognitionResult", "mockTimer"}
          /\ \A i \in 1 .. Len(trace'.arg) : trace'.arg[i] = " " )
            => /\ UNCHANGED << conversation, inflight, isListening, isLoading,
                               isBotSpeaking >>
               /\ trace'.calls = << >>
      ]_vars

C3_Witness ==
    /\ trace.op = "recognitionResult"
    /\ trace.arg = << " ", " " >>
    /\ isListening
    /\ ~isLoading
    /\ ~isBotSpeaking

\* C4: at most one of isListening, isLoading, isBotSpeaking is true.
C4_ExactlyOneStatus ==
    /\ ~(isListening /\ isLoading)
    /\ ~(isListening /\ isBotSpeaking)
    /\ ~(isLoading /\ isBotSpeaking)

\* C5: whenever a handler invokes onEndInterview, it has called
\* stopListening -- and speechSynthesis.cancel when synthesis is supported --
\* earlier in the same run; handleEndInterview always invokes it.
C5_CleanupBeforeCallback ==
    /\ \A i \in 1 .. Len(trace.calls) :
           trace.calls[i] = "onEndInterview"
               => /\ \E j \in 1 .. i - 1 : trace.calls[j] = "stopListening"
                  /\ synthesisSupported
                         => \E j \in 1 .. i - 1 : trace.calls[j] = "cancel"
    /\ trace.op = "handleEndInterview"
           => \E i \in 1 .. Len(trace.calls) : trace.calls[i] = "onEndInterview"

C5_Witness ==
    /\ trace.op = "handleEndInterview"
    /\ isListening
    /\ synthesisSupported
    /\ ended

\* C6: once the session has ended (onEndInterview was invoked or the mount
\* was torn down), a transcript delivered by the recognition callback or by
\* the mock timer neither changes the conversation nor issues a dialogue
\* request.
C6_NoLateTranscriptAfterEnd ==
    [][ ( /\ ended \/ phase = "unmounted"
          /\ trace'.op \in {"recognitionResult", "mockTimer"} )
            => /\ conversation' = conversation
               /\ inflight' = inflight
               /\ \A i \in 1 .. Len(trace'.calls) :
                      trace'.calls[i] # "generateNextQuestion"
      ]_vars

\* C7: every step that changes the conversation leaves activeMessageIndex at
\* conversation.length - 1, and activeMessageIndex moves to any other value
\* only by a history-pill selection.
C7_ActiveIndexFollowsAppend ==
    [][ /\ conversation' # conversation
            => activeMessageIndex' = Len(conversation') - 1
        /\ ( /\ activeMessageIndex' # activeMessageIndex
             /\ activeMessageIndex' # Len(conversation') - 1 )
            => trace'.op = "selectMessage"
      ]_vars

C7_Witness ==
    /\ trace.op \in {"recognitionResult", "mockTimer", "nextResolve"}
    /\ Len(conversation) >= 3
    /\ activeMessageIndex = Len(conversation) - 1
    /\ Mounted

\* C8: when generateInitialQuestion rejects in a mounted session, the
\* conversation becomes the single bot turn carrying the fallback greeting
\* built from userInfo.name and userInfo.position, and isLoading is false.
C8_FallbackOpening ==
    [][ (trace'.op = "initReject" /\ phase' = "mounted")
            => /\ conversation' =
                      << [ speaker |-> "bot",
                           text |-> << "Hello ", userInfo.name,
                                       ", thanks for joining this interview for the ",
                                       userInfo.position,
                                       " position. Could you tell me about your background and experience?" >> ] >>
               /\ ~isLoading'
      ]_vars

C8_Witness ==
    /\ trace.op = "initReject"
    /\ Mounted
    /\ Len(conversation) = 1
    /\ userInfo.name = "Ana"

\* C9: when generateInitialQuestion rejects in a mounted session and speech
\* synthesis is supported, the fallback turn is spoken: speak is called and
\* isBotSpeaking becomes true.
C9_FallbackIsSpoken ==
    [][ (trace'.op = "initReject" /\ phase' = "mounted" /\ synthesisSupported)
            => /\ isBotSpeaking'
               /\ \E i \in 1 .. Len(trace'.calls) : trace'.calls[i] = "speak"
      ]_vars

\* C10: a non-empty conversation starts with a bot turn.
C10_FirstTurnIsBot ==
    conversation # <<>> => conversation[1].speaker = "bot"

C10_Witness ==
    /\ Len(conversation) >= 2
    /\ conversation[2].speaker = "user"
    /\ trace.op \in {"recognitionResult", "mockTimer"}

\* C11: the conversation is append-only: every step leaves the previous
\* conversation as a prefix of the new one (the opening turn is set on an
\* empty conversation); dialogue failure, index selection and cancelling
\* listening leave it unchanged.
C11_AppendOnly ==
    [][ /\ Len(conversation) <= Len(conversation')
        /\ SubSeq(conversation', 1, Len(conversation)) = conversation
        /\ trace'.op \in {"nextReject", "selectMessage", "toggleListening"}
            => conversation' = conversation
      ]_vars

C11_Witness ==
    /\ trace.op = "nextReject"
    /\ Len(conversation) >= 4
    /\ conversation[Len(conversation)].speaker = "user"
    /\ Mounted

\* C12: at most one generateNextQuestion request is in flight, and no user
\* turn is appended while a dialogue request is in flight or while the bot
\* is speaking.
C12_SerializedByGuard ==
    [][ /\ inflight' <= 1
        /\ ( /\ trace'.op \in {"recognitionResult", "mockTimer"}
             /\ initPending \/ inflight > 0 \/ isBotSpeaking )
            => conversation' = conversation
      ]_vars

\* C13: a non-empty transcript delivered by the callback that toggleListening
\* registered (recognition result or mock timer) while isListening is true
\* calls stopListening and leaves isListening false and isLoading true.
C13_TranscriptLeavesListening ==
    [][ ( /\ trace'.op \in {"recognitionResult", "mockTimer"}
          /\ \E i \in 1 .. Len(trace'.arg) : trace'.arg[i] # " "
          /\ isListening
          /\ phase = "mounted" )
            => /\ ~isListening'
               /\ isLoading'
               /\ \E i \in 1 .. Len(trace'.calls) : trace'.calls[i] = "stopListening"
      ]_vars

\* C14: after the user has cancelled listening (isListening is false again)
\* the session is Idle, and until listening is started again no transcript
\* callback appends a user turn or issues a dialogue request.
C14_CancelStopsTranscripts ==
    [][ /\ ( /\ trace'.op = "toggleListening"
             /\ isListening /\ ~isLoading /\ ~isBotSpeaking )
            => (~isListening' /\ ~isLoading' /\ ~isBotSpeaking')
        /\ ( /\ trace'.op \in {"recognitionResult", "mockTimer"}
             /\ ~isListening
             /\ phase = "mounted" )
            => (conversation' = conversation /\ inflight' = inflight)
      ]_vars

\* C15: when the onDone callback of a spoken follow-up question fires and no
\* other utterance is outstanding, none of isListening, isLoading,
\* isBotSpeaking is true.
C15_IdleAfterSpeech ==
    [][ ( /\ trace'.op = "speakDone"
          /\ phase = "mounted"
          /\ Len(conversation) >= 3
          /\ conversation[Len(conversation)].speaker = "bot"
          /\ speaking' = 0 )
            => (~isListening' /\ ~isLoading' /\ ~isBotSpeaking')
      ]_vars

\* C16: when generateNextQuestion rejects in a mounted session, the
\* conversation is what it was when the request was issued -- unchanged by
\* the failure and still ending with the user turn that issued it --, speak
\* is not called, and isLoading is false with the mic control enabled
\* (isBotSpeaking false as well).
C16_FollowUpFailure ==
    [][ (trace'.op = "nextReject" /\ phase = "mounted")
            => /\ conversation' = conversation
               /\ conversation'[Len(conversation')].speaker = "user"
               /\ trace'.calls = << >>
               /\ speaking' = speaking
               /\ ~isLoading'
               /\ ~isBotSpeaking'
      ]_vars

\* C17: when speech synthesis is unsupported, isBotSpeaking is never true,
\* speak is never called and no utterance is outstanding; a dialogue
\* response (opening or follow-up) handled by the mounted component leaves
\* isLoading false, so Processing is left for a non-Speaking state.
C17_NoSpeakingWithoutSynthesis ==
    ~synthesisSupported
        => /\ ~isBotSpeaking
           /\ speaking = 0
           /\ \A i \in 1 .. Len(trace.calls) : trace.calls[i] # "speak"
           /\ (trace.op \in {"initResolve", "nextResolve"} /\ phase = "mounted")
                  => ~isLoading

C17_Witness ==
    /\ ~synthesisSupported
    /\ trace.op = "nextResolve"
    /\ phase = "mounted"
    /\ Len(conversation) >= 3

\* ------------------------------------------------------------- fairness
\* Every dialogue request eventually resolves or rejects and every speech
\* completion callback eventually fires; user actions, transcripts and
\* timers are not forced.
InitSettles == (\E q \in Questions : InitResolve(q)) \/ InitReject

NextSettles == (\E q \in Questions : NextResolve(q)) \/ NextReject

SpecFair ==
    /\ Init
    /\ [][Next]_vars
    /\ WF_vars(InitSettles)
    /\ WF_vars(NextSettles)
    /\ WF_vars(SpeakDone)

\* C18: under that fairness, whenever the mic control of a mounted session
\* is disabled (isLoading or isBotSpeaking), it eventually is enabled again
\* (both false), unless the component is unmounted first.
C18_MicEventuallyEnabled ==
    (phase = "mounted" /\ (isLoading \/ isBotSpeaking))
        ~> (phase # "mounted" \/ (~isLoading /\ ~isBotSpeaking))

C18_Witness ==
    /\ phase = "mounted"
    /\ ~isLoading
    /\ ~isBotSpeaking
    /\ trace.op = "speakDone"
    /\ Len(conversation) >= 3

\* C19: once the session has ended (onEndInterview was invoked or the mount
\* was torn down), a dialogue request that resolves does not call speak and
\* does not change isBotSpeaking.
C19_NoSpeakAfterEnd ==
    [][ ( /\ ended \/ phase = "unmounted"
          /\ trace'.op \in {"initResolve", "nextResolve"} )
            => /\ \A i \in 1 .. Len(trace'.calls) : trace'.calls[i] # "speak"
               /\ speaking' = speaking
               /\ isBotSpeaking' = isBotSpeaking
      ]_vars

\* C20: a non-empty conversation always has activeMessageIndex within
\* 0 .. conversation.length - 1, and a history-pill selection picks the index
\* of an existing turn and changes nothing but activeMessageIndex.
C20_ActiveIndexInRange ==
    [][ /\ conversation' # <<>>
            => activeMessageIndex' \in 0 .. Len(conversation') - 1
        /\ trace'.op = "selectMessage"
            => /\ activeMessageIndex' \in 0 .. Len(conversation) - 1
               /\ UNCHANGED << isListening, transcript, botResponse, conversation,
                               isConnected, isBotSpeaking, isLoading, phase,
                               initPending, inflight, recCb, timers, speaking,
                               ended, env >>
      ]_vars

C20_Witness ==
    /\ trace.op = "selectMessage"
    /\ Len(conversation) >= 3
    /\ activeMessageIndex = 0
    /\ phase = "mounted"

====
